---- MODULE Spec2Model ----
(***************************************************************************)
(* RNA Base Pair Explorer (scripts/app.py): the loader that synthesizes    *)
(* the combined_hbond_* descriptor columns, the matcher (has_hbond,        *)
(* find_bp_interest) and the search / display / export step of the page.   *)
(*                                                                         *)
(* A Python string is modelled as the tuple of its characters, so that     *)
(* split, join, startswith, sorted and str.contains are computed and not   *)
(* assumed.  A cell of a table is a record [kind, s]: kind "str" with the  *)
(* characters s, or one of the two nulls pandas reads from a parquet file  *)
(* (kind "None" in an object column, kind "NaN" in a float column).        *)
(***************************************************************************)
EXTENDS Integers, Sequences, FiniteSets

VARIABLES raw, df_bp, data_loaded, banner, bp, hbonds, outcome, results,
          hb_masks, shown, csv

vars == <<raw, df_bp, data_loaded, banner, bp, hbonds, outcome, results,
          hb_masks, shown, csv>>

(***************************************************************************)
(* Bounds of the model.                                                    *)
(***************************************************************************)
MaxRows == 2
MaxTerms == 2

(***************************************************************************)
(* Python str primitives.                                                  *)
(***************************************************************************)
\* Characters of the model in code-point order (the order str comparison uses).
CodePointOrder ==
    <<"-", ".", "0", "1", "2", "3", "4", "5", "6", "7", "8", "9",
      "A", "B", "D", "G", "I", "N", "O", "P", "U", "_",
      "a", "b", "c", "d", "e", "h", "i", "m", "n", "o", "p", "r", "s", "t">>

ord(c) == CHOOSE i \in 1..Len(CodePointOrder) : CodePointOrder[i] = c

Range(s) == {s[i] : i \in 1..Len(s)}

\* a < b on Python strings: lexicographic by code point, a proper prefix first.
StrLess(a, b) ==
    \E k \in 1..(Len(b)) :
        /\ \A j \in 1..(k - 1) : j <= Len(a) /\ a[j] = b[j]
        /\ k - 1 <= Len(a)
        /\ \/ k = Len(a) + 1
           \/ k <= Len(a) /\ ord(a[k]) < ord(b[k])

\* s.split(sep) for a one-character separator.
RECURSIVE split(_, _)
split(s, sep) ==
    IF \A i \in 1..Len(s) : s[i] # sep
    THEN <<s>>
    ELSE LET k == CHOOSE i \in 1..Len(s) :
                      s[i] = sep /\ \A j \in 1..(i - 1) : s[j] # sep
         IN  <<SubSeq(s, 1, k - 1)>> \o split(SubSeq(s, k + 1, Len(s)), sep)

\* sep.join(parts)
RECURSIVE join(_, _)
join(parts, sep) ==
    IF Len(parts) = 0 THEN <<>>
    ELSE IF Len(parts) = 1 THEN parts[1]
    ELSE parts[1] \o <<sep>> \o join(Tail(parts), sep)

\* s[::-1] on a list
reversed(s) == [i \in 1..Len(s) |-> s[Len(s) + 1 - i]]

\* s[-2:] on a list
last_two(s) == IF Len(s) <= 2 THEN s ELSE SubSeq(s, Len(s) - 1, Len(s))

startswith(s, p) == Len(p) <= Len(s) /\ SubSeq(s, 1, Len(p)) = p

\* sorted(list of str): insertion sort, stable.
RECURSIVE insert_sorted(_, _)
insert_sorted(x, s) ==
    IF Len(s) = 0 THEN <<x>>
    ELSE IF StrLess(x, s[1]) THEN <<x>> \o s
    ELSE <<s[1]>> \o insert_sorted(x, Tail(s))

RECURSIVE sorted_from(_, _)
sorted_from(s, acc) ==
    IF Len(s) = 0 THEN acc
    ELSE sorted_from(Tail(s), insert_sorted(s[1], acc))

\* A loader that takes the columns in file order.
sorted_file_order(cols) == cols

sorted(cols) == sorted_from(cols, <<>>)

\* str(i) for a positive int
Digits == <<"0", "1", "2", "3", "4", "5", "6", "7", "8", "9">>

RECURSIVE int_str(_)
int_str(n) ==
    IF n < Len(Digits) THEN <<Digits[n + 1]>>
    ELSE int_str(n \div Len(Digits)) \o <<Digits[(n % Len(Digits)) + 1]>>

\* re.search(pattern, s) for a pattern over the model's characters: every
\* character is a literal but ".", which matches any character.
re_search(pattern, s) ==
    \E i \in 0..(Len(s) - Len(pattern)) :
        \A j \in 1..Len(pattern) : pattern[j] = "." \/ pattern[j] = s[i + j]

(***************************************************************************)
(* Cells and tables (pandas DataFrame: columns, index, rows).              *)
(***************************************************************************)
Str(s) == [kind |-> "str", s |-> s]
None == [kind |-> "None", s |-> <<>>]
NaN == [kind |-> "NaN", s |-> <<>>]

isna(cell) == cell.kind # "str"

\* Series.astype(str) on one cell, as pandas 1.x and 2.x (the versions
\* streamlit installs) compute it: a null becomes the text of its repr.
astype_str(cell) ==
    IF cell.kind = "str" THEN cell.s
    ELSE IF cell.kind = "None" THEN <<"N", "o", "n", "e">>
    ELSE <<"n", "a", "n">>

\* Series.str.contains(v, na=False) on one cell (regex=True is the default).
str_contains(cell, v) == IF isna(cell) THEN FALSE ELSE re_search(v, cell.s)

NoTable == [columns |-> <<>>, rows |-> <<>>]

(***************************************************************************)
(* The datasets of the model: a layout names the columns of the parquet    *)
(* file, a row template gives the values of one observation.               *)
(***************************************************************************)
w_base == <<"b", "a", "s", "e">>
w_pair == <<"p", "a", "i", "r">>
w_atom == <<"a", "t", "o", "m">>
w_dist == <<"d", "i", "s", "t">>
w_hbond == <<"h", "b", "o", "n", "d">>
w_combined == <<"c", "o", "m", "b", "i", "n", "e", "d">>

name(words) == join(words, "_")

base_pair == name(<<w_base, w_pair>>)

PDB_ID == name(<<<<"P", "D", "B">>, <<"I", "D">>>>)

s_pdb_1 == <<"1", "G", "U", "A">>
s_pdb_2 == <<"2", "G", "U", "A">>

s_GU == <<"G", "-", "U">>
s_UG == <<"U", "-", "G">>
s_AA == <<"A", "-", "A">>
s_GUnodash == <<"G", "U">>
s_O6N3 == <<"O", "6", "-", "N", "3">>
s_N3O6 == <<"N", "3", "-", "O", "6">>
s_N2O2 == <<"N", "2", "-", "O", "2">>
s_O6 == <<"O", "6">>
s_OdotN3 == <<"O", ".", "-", "N", "3">>
s_2_8 == <<"2", ".", "8">>
s_2_9 == <<"2", ".", "9">>
s_3_1 == <<"3", ".", "1">>

col_atom_1 == name(<<w_atom, w_hbond, <<"1">>>>)
col_dist_1 == name(<<w_dist, w_hbond, <<"1">>>>)
col_atom_2 == name(<<w_atom, w_hbond, <<"2">>>>)
col_dist_2 == name(<<w_dist, w_hbond, <<"2">>>>)
col_atom_11 == name(<<w_atom, w_hbond, <<"1", "1">>>>)
col_dist_11 == name(<<w_dist, w_hbond, <<"1", "1">>>>)
col_hbond_1_atom == name(<<w_hbond, <<"1">>, w_atom>>)
col_hbond_1_dist == name(<<w_hbond, <<"1">>, w_dist>>)
col_combined_1 == name(<<w_combined, w_hbond, <<"1">>>>)

Col(n, role) == [name |-> n, role |-> role]

\* trailing-suffix naming, one slot
LayoutSuffix == <<Col(base_pair, "bp"), Col(col_atom_1, "a1"), Col(col_dist_1, "d1")>>
\* the slot number in front of the column kind
LayoutPrefix == <<Col(base_pair, "bp"), Col(col_hbond_1_atom, "a1"),
                  Col(col_hbond_1_dist, "d1")>>
\* the distance column stored before the atom column
LayoutDistFirst == <<Col(base_pair, "bp"), Col(col_dist_1, "d1"), Col(col_atom_1, "a1")>>
\* slot 2 has its atom column only
LayoutLoneAtom == <<Col(base_pair, "bp"), Col(col_atom_1, "a1"), Col(col_dist_1, "d1"),
                    Col(col_atom_2, "a2")>>
\* a slot numbered 11
LayoutSlot11 == <<Col(base_pair, "bp"), Col(col_atom_11, "a1"), Col(col_dist_11, "d1")>>
\* the file already holds combined_hbond_1: three columns carry the suffix
LayoutStored == <<Col(base_pair, "bp"), Col(col_atom_1, "a1"), Col(col_dist_1, "d1"),
                  Col(col_combined_1, "c1")>>
\* the file holds combined_hbond_1 and one other column of the suffix
LayoutStoredPair == <<Col(base_pair, "bp"), Col(col_atom_1, "a1"),
                      Col(col_combined_1, "c1")>>
\* two slots
LayoutTwoSlots == <<Col(base_pair, "bp"), Col(col_atom_1, "a1"), Col(col_dist_1, "d1"),
                    Col(col_atom_2, "a2"), Col(col_dist_2, "d2")>>

\* A layout with the structure identifier the page's banner counts.
WithPdbId(layout) == <<Col(PDB_ID, "pdb")>> \o layout

\* The column layouts of the datasets the page loads (one of them without
\* PDB_ID), of the tables find_bp_interest is called on directly, and of
\* those given to the descriptor synthesis alone.
Layouts == {WithPdbId(LayoutSuffix), WithPdbId(LayoutStored), WithPdbId(LayoutTwoSlots),
            LayoutSuffix}

CallLayouts == {LayoutSuffix, LayoutPrefix}

LoaderLayouts == {LayoutSuffix, LayoutPrefix, LayoutStored, LayoutTwoSlots,
                  LayoutDistFirst, LayoutLoneAtom, LayoutSlot11, LayoutStoredPair}

RowGU == [pdb |-> Str(s_pdb_1), bp |-> Str(s_GU), a1 |-> Str(s_O6N3), d1 |-> Str(s_2_8),
          a2 |-> Str(s_N2O2), d2 |-> Str(s_2_9),
          c1 |-> Str(s_O6N3 \o <<"_">> \o s_2_8)]
RowUG == [pdb |-> Str(s_pdb_1), bp |-> Str(s_UG), a1 |-> Str(s_N3O6), d1 |-> Str(s_3_1),
          a2 |-> None, d2 |-> NaN, c1 |-> None]
RowAA == [pdb |-> Str(s_pdb_2), bp |-> Str(s_AA), a1 |-> Str(s_O6N3), d1 |-> NaN,
          a2 |-> Str(s_N2O2), d2 |-> Str(s_2_9), c1 |-> None]
RowNoDash == [pdb |-> Str(s_pdb_2), bp |-> Str(s_GUnodash), a1 |-> None, d1 |-> Str(s_2_8),
              a2 |-> Str(s_O6N3), d2 |-> NaN,
              c1 |-> Str(s_N2O2 \o <<"_">> \o s_2_9)]

RowPool == {RowGU, RowUG, RowAA, RowNoDash}

Terms == {s_O6N3, s_N2O2, s_O6, s_OdotN3}

TermLists == UNION {[1..n -> Terms] : n \in 1..MaxTerms}

Labels == {s_GU, s_UG, s_AA, s_GUnodash}

ColumnSet(df) == Range(df.columns)

\* The DataFrame pd.read_parquet returns: a RangeIndex from 0 and the cells.
read_parquet(layout, templates) ==
    [columns |-> [k \in 1..Len(layout) |-> layout[k].name],
     rows |-> [i \in 1..Len(templates) |->
                 [index |-> i - 1,
                  cells |-> [c \in {layout[k].name : k \in 1..Len(layout)} |->
                               templates[i][
                                 layout[CHOOSE k \in 1..Len(layout) :
                                            layout[k].name = c].role]]]]]

DatasetsOf(layouts) ==
    {read_parquet(l, t) : l \in layouts,
                          t \in UNION {[1..n -> RowPool] : n \in 1..MaxRows}}

(***************************************************************************)
(* load_data_from_gdrive: the descriptor synthesis.                        *)
(***************************************************************************)
\* "_".join(col.split("_")[-2:])
suffix_of(col) == join(last_two(split(col, "_")), "_")

\* The keys of suffix_groups in insertion order.
RECURSIVE suffix_keys(_, _)
suffix_keys(columns, acc) ==
    IF Len(columns) = 0 THEN acc
    ELSE LET sfx == suffix_of(columns[1])
         IN  suffix_keys(Tail(columns),
                         IF startswith(sfx, w_hbond) /\ sfx \notin Range(acc)
                         THEN Append(acc, sfx) ELSE acc)

\* suffix_groups[sfx]: the columns of the suffix in column order.
suffix_group(columns, sfx) == SelectSeq(columns, LAMBDA c : suffix_of(c) = sfx)

\* df[new_col] = df[atom_col].astype(str) + "_" + df[dist_col].astype(str)
assign_combined(df, new_col, atom_col, dist_col) ==
    [columns |-> IF new_col \in ColumnSet(df) THEN df.columns
                 ELSE Append(df.columns, new_col),
     rows |-> [i \in 1..Len(df.rows) |->
                 [index |-> df.rows[i].index,
                  cells |-> [c \in ColumnSet(df) \cup {new_col} |->
                               IF c = new_col
                               THEN Str(astype_str(df.rows[i].cells[atom_col])
                                        \o <<"_">>
                                        \o astype_str(df.rows[i].cells[dist_col]))
                               ELSE df.rows[i].cells[c]]]]]

group_is_pair(cols) == Len(cols) = 2

RECURSIVE combine_groups(_, _, _)
combine_groups(df, groups_of, keys) ==
    IF Len(keys) = 0 THEN df
    ELSE LET cols == groups_of[keys[1]]
             new_col == name(<<w_combined>>) \o <<"_">> \o keys[1]
         IN  combine_groups(
                 IF group_is_pair(cols)
                 THEN assign_combined(df, new_col, sorted(cols)[1], sorted(cols)[2])
                 ELSE df,
                 groups_of, Tail(keys))

load_data(df) ==
    LET keys == suffix_keys(df.columns, <<>>)
        groups_of == [sfx \in Range(keys) |-> suffix_group(df.columns, sfx)]
    IN  combine_groups(df, groups_of, keys)

(***************************************************************************)
(* has_hbond and find_bp_interest.                                         *)
(***************************************************************************)
FirstSlot == 1
LastSlot == 10

combined_col(i) == w_combined \o <<"_">> \o w_hbond \o <<"_">> \o int_str(i)

\* A matcher that forgets the swapped form of the term.
variants_of_as_typed(hbond) == <<hbond, hbond>>

variants_of(hbond) == <<hbond, join(reversed(split(hbond, "-")), "-")>>

\* The mask has_hbond returns, one boolean per row (the scalar False the
\* code starts from becomes an all-False mask when it is and-ed in).
has_hbond(df, hbond) ==
    LET variants == variants_of(hbond)
        cols == {combined_col(i) : i \in FirstSlot..LastSlot} \cap ColumnSet(df)
    IN  [r \in 1..Len(df.rows) |->
            \E col \in cols :
                \E k \in 1..Len(variants) :
                    str_contains(df.rows[r].cells[col], variants[k])]

\* A matcher that forgets the swapped form of the label.
acceptable_bps_as_typed(label) == <<label>>

\* bps of find_bp_interest; the caller has checked that bp_split[1] exists.
acceptable_bps(label) ==
    LET bp_split == split(label, "-")
    IN  IF bp_split[1] # bp_split[2]
        THEN <<label, join(reversed(bp_split), "-")>>
        ELSE <<label>>

\* df["base_pair"].isin(bps)
isin_mask(df, bps) ==
    [r \in 1..Len(df.rows) |->
        /\ ~isna(df.rows[r].cells[base_pair])
        /\ df.rows[r].cells[base_pair].s \in Range(bps)]

\* for hbond in hbonds: mask &= has_hbond(df, hbond)
RECURSIVE and_hbonds(_, _, _)
and_hbonds(df, mask, terms) ==
    IF Len(terms) = 0 THEN mask
    ELSE and_hbonds(df,
                    [r \in 1..Len(df.rows) |-> mask[r] /\ has_hbond(df, terms[1])[r]],
                    Tail(terms))

\* df[mask]: the rows where the mask is true, each with its index label.
RECURSIVE boolean_index(_, _)
boolean_index(rows, mask) ==
    IF Len(rows) = 0 THEN <<>>
    ELSE (IF mask[1] THEN <<rows[1]>> ELSE <<>>)
         \o boolean_index(Tail(rows), Tail(mask))

\* A selection that loses the first selected row.
select_rows_after_first(df, mask) ==
    [columns |-> df.columns,
     rows |-> IF Len(boolean_index(df.rows, mask)) = 0 THEN <<>>
              ELSE Tail(boolean_index(df.rows, mask))]

select_rows(df, mask) ==
    [columns |-> df.columns, rows |-> boolean_index(df.rows, mask)]

\* The outcome of one call: raised is "" when the call returns.
find_bp_interest(df, label, terms) ==
    IF Len(split(label, "-")) < 2
    THEN [raised |-> "IndexError", table |-> NoTable]
    ELSE [raised |-> "",
          table |-> select_rows(df, and_hbonds(df, isin_mask(df, acceptable_bps(label)),
                                               terms))]

(***************************************************************************)
(* The page: Load database, Search, display and export.                    *)
(***************************************************************************)
HeadLimit == 1000

\* results.head(1000)
head(df, n) ==
    [columns |-> df.columns,
     rows |-> SubSeq(df.rows, 1, IF Len(df.rows) < n THEN Len(df.rows) ELSE n)]

\* results.to_csv(index=False): the header line and one line per row, a
\* null written as the empty field.
to_csv(df) ==
    [header |-> df.columns,
     lines |-> [i \in 1..Len(df.rows) |->
                  [k \in 1..Len(df.columns) |->
                     LET cell == df.rows[i].cells[df.columns[k]]
                     IN  IF isna(cell) THEN <<>> ELSE cell.s]]]

NoCsv == [header |-> <<>>, lines |-> <<>>]

\* The options of the "Select base pair" box: the base_pair values of the table.
bp_options(df) ==
    {df.rows[r].cells[base_pair].s : r \in 1..Len(df.rows)}

\* The option the select box shows first: sorted(options)[0].
first_option(options) ==
    CHOOSE b \in options : \A o \in options : o = b \/ StrLess(b, o)

\* df_bp['PDB_ID'].nunique() and len(df_bp) of the "Database loaded" banner;
\* raised is "" when the column exists.
render_banner(df) ==
    IF PDB_ID \notin ColumnSet(df)
    THEN [raised |-> "KeyError", structures |-> 0, base_pairs |-> 0]
    ELSE [raised |-> "",
          structures |-> Cardinality({df.rows[r].cells[PDB_ID].s :
                                        r \in {q \in 1..Len(df.rows) :
                                                 ~isna(df.rows[q].cells[PDB_ID])}}),
          base_pairs |-> Len(df.rows)]

NoBanner == [raised |-> "", structures |-> 0, base_pairs |-> 0]

\* The first run of the script: nothing is loaded, the page stops at the guard.
NotLoaded ==
    /\ df_bp = NoTable
    /\ data_loaded = FALSE
    /\ banner = NoBanner
    /\ bp = <<>>
    /\ hbonds = <<>>
    /\ outcome = "not_loaded"
    /\ results = NoTable
    /\ hb_masks = <<>>
    /\ shown = NoTable
    /\ csv = NoCsv

Init == raw \in DatasetsOf(Layouts) /\ NotLoaded

\* A rerun of the script in which "Search" is not pressed renders no result.
NoResult ==
    /\ outcome' = "idle"
    /\ results' = NoTable
    /\ hb_masks' = <<>>
    /\ shown' = NoTable
    /\ csv' = NoCsv

\* The script got past the banner: the select box, the text input and the
\* Search button exist.
widgets_rendered == data_loaded /\ banner.raised = ""

\* "Load database": the rerun stores the loaded table and renders the banner;
\* without a PDB_ID column the banner raises KeyError and the script ends
\* there, in this rerun and in every later one.  Otherwise the inputs are
\* rendered, and keep their values once they exist.
LoadDatabase ==
    /\ df_bp' = load_data(raw)
    /\ data_loaded' = TRUE
    /\ banner' = render_banner(load_data(raw))
    /\ IF render_banner(load_data(raw)).raised # ""
       THEN /\ outcome' = "KeyError"
            /\ results' = NoTable
            /\ hb_masks' = <<>>
            /\ shown' = NoTable
            /\ csv' = NoCsv
            /\ UNCHANGED <<bp, hbonds>>
       ELSE /\ bp' = IF data_loaded THEN bp
                     ELSE first_option(bp_options(load_data(raw)))
            /\ hbonds' = IF data_loaded THEN hbonds ELSE <<>>
            /\ NoResult
    /\ UNCHANGED raw

\* The user picks another base pair in the select box.
SelectBasePair ==
    /\ widgets_rendered
    /\ \E label \in bp_options(df_bp) : label # bp /\ bp' = label
    /\ NoResult
    /\ UNCHANGED <<raw, df_bp, data_loaded, banner, hbonds>>

\* The user adds one more term to the comma-separated text.
EnterTerm ==
    /\ widgets_rendered
    /\ Len(hbonds) < MaxTerms
    /\ \E term \in Terms : hbonds' = Append(hbonds, term)
    /\ NoResult
    /\ UNCHANGED <<raw, df_bp, data_loaded, banner, bp>>

\* The user empties the text.
ClearTerms ==
    /\ widgets_rendered
    /\ hbonds # <<>>
    /\ hbonds' = <<>>
    /\ NoResult
    /\ UNCHANGED <<raw, df_bp, data_loaded, banner, bp>>

\* "Search" with no term entered: the warning.
SearchNoTerms ==
    /\ widgets_rendered
    /\ hbonds = <<>>
    /\ outcome' = "warning"
    /\ results' = NoTable
    /\ hb_masks' = <<>>
    /\ shown' = NoTable
    /\ csv' = NoCsv
    /\ UNCHANGED <<raw, df_bp, data_loaded, banner, bp, hbonds>>

\* What one call find_bp_interest(df, label, terms) leaves behind.
CallOutcome(df, label, terms) ==
    LET call == find_bp_interest(df, label, terms)
    IN  IF call.raised # ""
        THEN /\ outcome' = call.raised
             /\ results' = NoTable
             /\ hb_masks' = <<>>
        ELSE /\ results' = call.table
             /\ hb_masks' = [k \in 1..Len(terms) |-> has_hbond(df, terms[k])]
             /\ outcome' = IF Len(call.table.rows) = 0 THEN "no_match" ELSE "results"

\* "Search" with at least one term: find_bp_interest, then the table shown
\* and the download, when there is a match.
Search ==
    /\ widgets_rendered
    /\ hbonds # <<>>
    /\ CallOutcome(df_bp, bp, hbonds)
    /\ LET call == find_bp_interest(df_bp, bp, hbonds)
       IN  IF call.raised = "" /\ Len(call.table.rows) > 0
           THEN /\ shown' = head(call.table, HeadLimit)
                /\ csv' = to_csv(call.table)
           ELSE /\ shown' = NoTable
                /\ csv' = NoCsv
    /\ UNCHANGED <<raw, df_bp, data_loaded, banner, bp, hbonds>>

Next ==
    \/ LoadDatabase
    \/ SelectBasePair
    \/ EnterTerm
    \/ ClearTerms
    \/ SearchNoTerms
    \/ Search

Spec == Init /\ [][Next]_vars

(***************************************************************************)
(* The two functions called directly, as a test calls them: the descriptor *)
(* synthesis of load_data_from_gdrive on a table, then find_bp_interest.   *)
(***************************************************************************)
BuildDescriptors ==
    /\ df_bp = NoTable
    /\ df_bp' = load_data(raw)
    /\ UNCHANGED <<raw, data_loaded, banner, bp, hbonds, outcome, results,
                   hb_masks, shown, csv>>

CallFindInterest ==
    /\ df_bp # NoTable
    /\ outcome = "not_loaded"
    /\ \E label \in Labels, terms \in TermLists :
          /\ bp' = label
          /\ hbonds' = terms
          /\ CallOutcome(df_bp, label, terms)
    /\ UNCHANGED <<raw, df_bp, data_loaded, banner, shown, csv>>

CallInit == raw \in DatasetsOf(CallLayouts) /\ NotLoaded

CallNext == BuildDescriptors \/ CallFindInterest

CallSpec == CallInit /\ [][CallNext]_vars

\* The descriptor synthesis alone, on every column layout.
LoadInit == raw \in DatasetsOf(LoaderLayouts) /\ NotLoaded

LoadSpec == LoadInit /\ [][BuildDescriptors]_vars

(***************************************************************************)
(* The claims.                                                             *)
(***************************************************************************)
\* The last call of find_bp_interest ran to its end.
Returned == outcome \in {"results", "no_match"}

\* The descriptor synthesis has returned its table.
Built == df_bp # NoTable

\* find_bp_interest has been called.
Called == outcome \in {"results", "no_match", "IndexError"}

RowNumbers(df) == 1..Len(df.rows)

Slots == FirstSlot..LastSlot

\* "B-A" for a term or label "A-B"
Swapped(t) == split(t, "-")[2] \o <<"-">> \o split(t, "-")[1]

HasXYForm(t) == Len(split(t, "-")) = 2

AcceptableSet(label) ==
    IF split(label, "-")[1] = split(label, "-")[2]
    THEN {label}
    ELSE {label, Swapped(label)}

MatchesBasePair(df, r, label) ==
    /\ ~isna(df.rows[r].cells[base_pair])
    /\ df.rows[r].cells[base_pair].s \in AcceptableSet(label)

\* hb_masks[k] is has_hbond(df_bp, hbonds[k]) of the search.
ExpectedRows ==
    {r \in RowNumbers(df_bp) :
        /\ MatchesBasePair(df_bp, r, bp)
        /\ \A k \in 1..Len(hbonds) : hb_masks[k][r]}

\* C1: find_bp_interest returns exactly the rows whose base_pair is in the
\* acceptable set of the label "X-Y" and for which has_hbond is true for
\* every term of the list: none is dropped, none is added, none is doubled.
C1_ExactlyTheMatchingRows ==
    (Returned /\ HasXYForm(bp)) =>
        /\ Range(results.rows) = {df_bp.rows[r] : r \in ExpectedRows}
        /\ Len(results.rows) = Cardinality(ExpectedRows)

\* C1 witness: two different terms, a label with X # Y, a row returned and a
\* row of an acceptable base pair rejected by a term.
C1_Witness ==
    /\ outcome = "results"
    /\ Len(hbonds) >= 2
    /\ hbonds[1] # hbonds[2]
    /\ Cardinality(AcceptableSet(bp)) = 2
    /\ \E r \in RowNumbers(df_bp) :
          /\ df_bp.rows[r].cells[base_pair].s = Swapped(bp)
          /\ df_bp.rows[r] \in Range(results.rows)
    /\ \E r \in RowNumbers(df_bp) :
          /\ MatchesBasePair(df_bp, r, bp)
          /\ df_bp.rows[r] \notin Range(results.rows)

\* Plain character containment: pattern in s.
plain_in(pattern, s) ==
    \E i \in 0..(Len(s) - Len(pattern)) :
        \A j \in 1..Len(pattern) : pattern[j] = s[i + j]

\* A descriptor column of the slots holds the term or its swapped form as a
\* plain substring of a non-null value.
PlainMatch(df, r, t) ==
    \E i \in Slots :
        /\ combined_col(i) \in ColumnSet(df)
        /\ ~isna(df.rows[r].cells[combined_col(i)])
        /\ \/ plain_in(t, df.rows[r].cells[combined_col(i)].s)
           \/ plain_in(Swapped(t), df.rows[r].cells[combined_col(i)].s)

\* C2: for every row and every term "A-B", has_hbond is true iff one of the
\* descriptor columns of slots 1..10 contains "A-B" or "B-A" as a plain
\* substring; a null descriptor never makes it true.
C2_PlainSubstringOrSwap ==
    Returned =>
        \A k \in 1..Len(hbonds) :
            HasXYForm(hbonds[k]) =>
                \A r \in RowNumbers(df_bp) :
                    hb_masks[k][r] <=> PlainMatch(df_bp, r, hbonds[k])

\* C3: for a label that has not the "X-Y" form the search ends normally
\* with zero matching rows, never in a thrown failure.
C3_MalformedLabelGivesNoRows ==
    (Called /\ ~HasXYForm(bp)) => outcome = "no_match"

\* C4: with a term that has no "-" in the list the search returns an empty
\* table or reports a validation failure; it returns no non-empty table.
C4_TermWithoutDashGivesNoRows ==
    (Returned /\ \E k \in 1..Len(hbonds) : "-" \notin Range(hbonds[k])) =>
        outcome # "results"

\* The two columns slot i is synthesized from, when the file has exactly two.
SlotPair(i) == suffix_group(raw.columns, w_hbond \o <<"_">> \o int_str(i))

\* A term "A-B" of letters and digits: the terms the page asks for.
PlainTerm(t) == HasXYForm(t) /\ "." \notin Range(t)

\* C5: a row whose atom or distance value of slot i is null matches no term
\* through slot i: the descriptor of that slot contributes false.
C5_NullSlotNeverMatches ==
    Returned =>
        \A r \in RowNumbers(df_bp), i \in Slots :
            (/\ Len(SlotPair(i)) = 2
             /\ \E c \in Range(SlotPair(i)) : isna(raw.rows[r].cells[c])) =>
                \A t \in {u \in Range(hbonds) : PlainTerm(u)} :
                    \A k \in 1..Len(variants_of(t)) :
                        ~str_contains(df_bp.rows[r].cells[combined_col(i)],
                                      variants_of(t)[k])

\* C6: find_bp_interest applied to its own result with the same label and
\* terms returns that result: same rows, same order, same columns.
C6_Idempotent ==
    Returned =>
        /\ find_bp_interest(results, bp, hbonds).raised = ""
        /\ find_bp_interest(results, bp, hbonds).table = results

\* C6 witness: a search that kept a row and dropped a row.
C6_Witness ==
    /\ outcome = "results"
    /\ Len(results.rows) >= 1
    /\ Len(results.rows) < Len(df_bp.rows)

ScenarioA_AsWritten == read_parquet(LayoutPrefix, <<RowGU, RowUG>>)

ScenarioA_TrailingSuffix == read_parquet(LayoutSuffix, <<RowGU, RowUG>>)

ScenarioA_Query == Called /\ bp = s_GU /\ hbonds = <<s_O6N3>>

\* C7 as stated: with the columns base_pair, hbond_1_atom, hbond_1_dist and
\* the rows (G-U, O6-N3, 2.8), (U-G, N3-O6, 3.1), the query (G-U, [O6-N3])
\* returns both rows.
C7_ScenarioA_AsWritten ==
    (raw = ScenarioA_AsWritten /\ ScenarioA_Query) =>
        /\ outcome = "results"
        /\ Len(results.rows) = Len(raw.rows)

\* C7 amended: with the columns base_pair, atom_hbond_1, dist_hbond_1 (the
\* slot as the trailing suffix) and the same rows, the query (G-U, [O6-N3])
\* returns both rows, the G-U row first.
C7_ScenarioA_TrailingSuffix ==
    (raw = ScenarioA_TrailingSuffix /\ ScenarioA_Query) =>
        /\ outcome = "results"
        /\ Len(results.rows) = Len(raw.rows)
        /\ \A k \in 1..Len(results.rows) :
              /\ results.rows[k].index = raw.rows[k].index
              /\ \A c \in ColumnSet(raw) :
                    results.rows[k].cells[c] = raw.rows[k].cells[c]

\* C7 witness: scenario A with trailing suffixes has been searched.
C7_Witness ==
    /\ raw = ScenarioA_TrailingSuffix
    /\ ScenarioA_Query
    /\ outcome = "results"

\* C8: the k-th returned row carries ordinal k, counted from the start of
\* the result (the index of a DataFrame starts at 0), and the rows keep
\* their relative order.
C8_IndexReset ==
    outcome = "results" =>
        /\ \A k \in 1..Len(results.rows) : results.rows[k].index = k - 1
        /\ \A k \in 1..Len(results.rows) :
              \E r \in RowNumbers(df_bp) :
                  results.rows[k].cells = df_bp.rows[r].cells

\* C9: the table shown and the exported CSV hold only columns of the
\* original dataset.
C9_NoSynthesizedColumnInOutput ==
    outcome = "results" =>
        /\ Range(shown.columns) \subseteq ColumnSet(raw)
        /\ Range(csv.header) \subseteq ColumnSet(raw)

\* The suffixes (last two "_"-separated parts of a column name) that start
\* with "hbond" and are carried by exactly two columns of the file.
PairSuffixes ==
    {sfx \in {suffix_of(c) : c \in ColumnSet(raw)} :
        /\ startswith(sfx, w_hbond)
        /\ Cardinality({c \in ColumnSet(raw) : suffix_of(c) = sfx}) = 2}

DescriptorName(sfx) == w_combined \o <<"_">> \o sfx

FirstOf(sfx) ==
    CHOOSE c \in ColumnSet(raw) :
        /\ suffix_of(c) = sfx
        /\ \A d \in ColumnSet(raw) : (suffix_of(d) = sfx /\ d # c) => StrLess(c, d)

OtherOf(sfx) ==
    CHOOSE c \in ColumnSet(raw) : suffix_of(c) = sfx /\ c # FirstOf(sfx)

TextOf(cell) ==
    IF cell.kind = "str" THEN cell.s
    ELSE IF cell.kind = "None" THEN <<"N", "o", "n", "e">>
    ELSE <<"n", "a", "n">>

\* What the loader does for every suffix that two columns carry.
DescriptorsSynthesized ==
    /\ Len(df_bp.rows) = Len(raw.rows)
    /\ SubSeq(df_bp.columns, 1, Len(raw.columns)) = raw.columns
    /\ ColumnSet(df_bp) = ColumnSet(raw) \cup {DescriptorName(sfx) : sfx \in PairSuffixes}
    /\ \A r \in RowNumbers(raw) :
          /\ df_bp.rows[r].index = raw.rows[r].index
          /\ \A sfx \in PairSuffixes :
                df_bp.rows[r].cells[DescriptorName(sfx)] =
                    Str(TextOf(raw.rows[r].cells[FirstOf(sfx)]) \o <<"_">>
                        \o TextOf(raw.rows[r].cells[OtherOf(sfx)]))
          /\ \A c \in ColumnSet(raw) \ {DescriptorName(sfx) : sfx \in PairSuffixes} :
                df_bp.rows[r].cells[c] = raw.rows[r].cells[c]

\* C10 as stated: a descriptor column is added for suffix hbond_<i> iff i is
\* in 1..10 and exactly two columns carry it, its value the value of the
\* lexicographically-first column, "_", the value of the other; no other
\* column is added or changed.
C10_DescriptorsForSlots1To10 ==
    Built =>
        /\ DescriptorsSynthesized
        /\ \A c \in ColumnSet(df_bp) \ ColumnSet(raw) :
              \E i \in Slots : c = combined_col(i)

\* C10 amended: a descriptor column combined_<s> is written for every suffix
\* s that starts with "hbond" (any slot number) and is carried by exactly two
\* columns, its value the text of the lexicographically-first column's value
\* (a null as "None" or "nan"), "_", the text of the other's; no column but
\* these is added or changed.
C10_DescriptorsForEveryPair == Built => DescriptorsSynthesized

\* C10 witness: a loaded table with a descriptor column of a slot beyond 10
\* synthesized from a row with a null value.
C10_Witness ==
    /\ Built
    /\ \E c \in ColumnSet(df_bp) \ ColumnSet(raw) : \A i \in Slots : c # combined_col(i)
    /\ \E r \in RowNumbers(raw) : \E c \in ColumnSet(raw) : isna(raw.rows[r].cells[c])

====
